---- MODULE Spec2Model ----
(***************************************************************************)
(* A model of the Sehat health-surveillance backend: the route handlers    *)
(* (registerRoutes), the query/storage layer (DatabaseStorage) and the     *)
(* relational schema with its constraints (primary keys, unique columns,   *)
(* foreign keys, enum columns).                                            *)
(*                                                                         *)
(* Text values are sequences of one-character strings, so that padding,    *)
(* substring and pattern matching are computed and not assumed.  A JSON    *)
(* object is a record whose DOMAIN is the set of keys it carries.          *)
(***************************************************************************)
EXTENDS Integers, Sequences, FiniteSets, TLC

VARIABLES
    patients,       \* table patients, in insertion order
    healthRecords,  \* table health_records
    diseases,       \* table diseases
    diseaseCases,   \* table disease_cases
    healthAlerts,   \* table health_alerts
    seeded,         \* patients registered one after another before the window
                    \* under study: the rows MW000001 .. numbered `seeded`
    pc,             \* per client: where its POST /api/patients request stands
    insertPatient,  \* per client: createPatient's argument
    patientCount,   \* per client: createPatient's local patientCount
    patientId,      \* per client: createPatient's local patientId
    resp,           \* the response sent last
    users,          \* table users
    dashboard,      \* getDashboardStats under way: where it stands and the
                    \* counts it has read
    invalidated     \* the query keys the client's cache holds as invalidated

vars == <<patients, healthRecords, diseases, diseaseCases, healthAlerts,
          seeded, pc, insertPatient, patientCount, patientId, resp,
          users, dashboard, invalidated>>

\* what the routes named in the claims of the server leave alone: the users,
\* a dashboard read under way
aside == <<users, dashboard>>

tables == <<patients, healthRecords, diseases, diseaseCases, healthAlerts>>

(***************************************************************************)
(* Bounds of the model                                                     *)
(***************************************************************************)
NumClients == 2
MaxPatients == 2
MaxRows == 1
MaxDiseases == 2
MaxCases == 2
MaxAlerts == 2
MaxUsers == 2

Clients == 1..NumClients

(***************************************************************************)
(* Text                                                                    *)
(***************************************************************************)
EmptyObject == [k \in {} |-> 0]

DigitChars == <<"0", "1", "2", "3", "4", "5", "6", "7", "8", "9">>

\* Number.prototype.toString of a non-negative integer
RECURSIVE toString(_)
toString(n) ==
    IF n < 10 THEN <<DigitChars[n + 1]>>
    ELSE toString(n \div 10) \o <<DigitChars[(n % 10) + 1]>>

\* String.prototype.padStart with a one-character pad string
RECURSIVE padStart(_, _, _)
padStart(s, targetLength, padString) ==
    IF Len(s) >= targetLength THEN s
    ELSE padStart(<<padString>> \o s, targetLength, padString)

\* lower-case folding as ILIKE applies it
LowerChar(c) ==
    CASE c = "A" -> "a"
      [] c = "B" -> "b"
      [] c = "K" -> "k"
      [] c = "M" -> "m"
      [] c = "W" -> "w"
      [] OTHER -> c

Lower(s) == [i \in 1..Len(s) |-> LowerChar(s[i])]

\* SQL LIKE: % matches any run of characters, _ any one character, and a
\* backslash takes the next pattern character literally
RECURSIVE Like(_, _)
Like(s, pattern) ==
    IF pattern = <<>> THEN s = <<>>
    ELSE IF Head(pattern) = "%"
         THEN Like(s, Tail(pattern)) \/ (s # <<>> /\ Like(Tail(s), pattern))
    ELSE IF Head(pattern) = "\\" /\ Len(pattern) >= 2
         THEN s # <<>> /\ Head(s) = pattern[2] /\ Like(Tail(s), Tail(Tail(pattern)))
    ELSE s # <<>> /\ (Head(pattern) = "_" \/ Head(pattern) = Head(s))
                  /\ Like(Tail(s), Tail(pattern))

ILike(s, pattern) == Like(Lower(s), Lower(pattern))

(***************************************************************************)
(* Schema                                                                  *)
(***************************************************************************)
\* the column typed as text: any word is a value
healthStatusText ==
    {"healthy", "under_treatment", "critical", "recovered", "bogus"}

healthStatusEnum == {"healthy", "under_treatment", "critical", "recovered"}
alertSeverityEnum == {"low", "medium", "high", "critical"}
diseaseTypeEnum == {"infectious", "non_infectious", "chronic", "acute"}

\* the object o with the keys of u set to u's values
Merge(o, u) ==
    [k \in DOMAIN o \cup DOMAIN u |-> IF k \in DOMAIN u THEN u[k] ELSE o[k]]

Restrict(o, keys) == [k \in DOMAIN o \cap keys |-> o[k]]

Range(s) == {s[i] : i \in 1..Len(s)}

Max(S) == CHOOSE x \in S : \A y \in S : y <= x

\* defaultNow(): the clock never runs backwards, and two rows may share a
\* timestamp
Now(rows, col) ==
    IF rows = <<>> THEN {1}
    ELSE LET latest == Max({r[col] : r \in Range(rows)})
         IN  {latest, latest + 1}

\* defaultNow() when the clock has moved on since the last insert
Later(rows, col) == {Max({0} \cup {r[col] : r \in Range(rows)}) + 1}

\* gen_random_uuid(): a value no row of the table has or had
NewId(rows) == Len(rows) + 1

\* the value of a nullable reference that is not set
Null == 0

\* the value a column with a default takes on insert: the one supplied when
\* the values carry the key, the default otherwise
ValueOrDefault(values, k, default) ==
    IF k \in DOMAIN values THEN values[k] ELSE default

\* whether a row of the table already has this primary key
IdTaken(rows, id) == \E r \in Range(rows) : r.id = id

\* what a statement of the storage layer comes to: it throws (ok = FALSE, the
\* table as it was), or it leaves the table `rows` and returns `returned`
Thrown(rows) == [called |-> TRUE, ok |-> FALSE, rows |-> rows, returned |-> <<>>]

Done(rows, returned) ==
    [called |-> TRUE, ok |-> TRUE, rows |-> rows, returned |-> returned]

\* the handler left before it called the storage layer
NotCalled(rows) ==
    [called |-> FALSE, ok |-> FALSE, rows |-> rows, returned |-> <<>>]

\* a parse that checks nothing
ParseInsertUnchecked(body, required, optional, enumKey, enum) ==
    [ok |-> TRUE, errors |-> {}, data |-> Restrict(body, required \cup optional)]

\* a parse that checks the body and hands it on whole
ParseInsertPassthrough(body, required, optional, enumKey, enum) ==
    LET errors == {k \in required : k \notin DOMAIN body}
                  \cup {k \in {enumKey} : k \in DOMAIN body /\ body[k] \notin enum}
    IN  [ok |-> errors = {}, errors |-> errors, data |-> body]

\* what a createInsertSchema(...).omit(...) parse comes to: every required key
\* is present, every enum key present holds a value of its enum, and the keys
\* outside the schema are stripped
ParseInsert(body, required, optional, enumKey, enum) ==
    LET errors == {k \in required : k \notin DOMAIN body}
                  \cup {k \in {enumKey} : k \in DOMAIN body /\ body[k] \notin enum}
    IN  [ok |-> errors = {}, errors |-> errors,
         data |-> Restrict(body, required \cup optional)]

(***************************************************************************)
(* Patients                                                                *)
(***************************************************************************)
\* insertPatientSchema.parse: name and district are required, healthStatus is
\* optional and one of the enum
insertPatientSchema(body) ==
    ParseInsert(body, {"name", "district"}, {"healthStatus"},
                "healthStatus", healthStatusEnum)

\* a count that also counts the creations in flight
getPatientsCountReserving ==
    seeded + Len(patients) + Cardinality({c \in DOMAIN pc : pc[c] # "idle"})

\* db.select({ count: count() }).from(patients)
getPatientsCount == seeded + Len(patients)

\* the id without its padding
GeneratePatientIdUnpadded(count) == <<"M", "W">> \o toString(count + 1)

\* the id numbered with the count itself
GeneratePatientIdOfCount(count) == <<"M", "W">> \o padStart(toString(count), 6, "0")

\* `MW${(patientCount + 1).toString().padStart(6, '0')}`
GeneratePatientId(count) == <<"M", "W">> \o padStart(toString(count + 1), 6, "0")

IsDigit(c) == \E i \in 1..10 : DigitChars[i] = c

DigitValue(c) == (CHOOSE i \in 1..10 : DigitChars[i] = c) - 1

RECURSIVE ParseDecimal(_)
ParseDecimal(s) ==
    IF s = <<>> THEN 0
    ELSE 10 * ParseDecimal(SubSeq(s, 1, Len(s) - 1)) + DigitValue(s[Len(s)])

\* whether one of the `n` patients registered before the window holds pid
SeededPatientId(pid, n) ==
    /\ Len(pid) >= 3
    /\ pid[1] = "M" /\ pid[2] = "W"
    /\ \A i \in 3..Len(pid) : IsDigit(pid[i])
    /\ LET k == ParseDecimal(SubSeq(pid, 3, Len(pid)))
       IN  k \in 1..n /\ pid = GeneratePatientId(k - 1)

\* patient_id without its unique constraint
PatientIdNeverTaken(pid, except) == FALSE

\* patient_id is UNIQUE: whether a row other than row `except` holds pid
PatientIdTaken(pid, except) ==
    \/ \E i \in 1..Len(patients) : i # except /\ patients[i].patientId = pid
    \/ SeededPatientId(pid, seeded)

\* db.insert(patients).values(values).returning(), stamped registeredAt
InsertPatientRow(values, registeredAt) ==
    LET row == [id |-> ValueOrDefault(values, "id", NewId(patients)),
                patientId |-> values.patientId,
                name |-> values.name,
                district |-> values.district,
                healthStatus |-> ValueOrDefault(values, "healthStatus", "healthy"),
                registeredAt |-> registeredAt]
    IN  IF ~({"patientId", "name", "district"} \subseteq DOMAIN values)
        THEN Thrown(patients)           \* NOT NULL
        ELSE IF "registeredAt" \in DOMAIN values
        THEN Thrown(patients)           \* a JSON value is no Date
        ELSE IF IdTaken(patients, row.id)
        THEN Thrown(patients)           \* primary key
        ELSE IF "healthStatus" \in DOMAIN values
                /\ values.healthStatus \notin healthStatusEnum
        THEN Thrown(patients)           \* not a value of the enum
        ELSE IF PatientIdTaken(values.patientId, 0)
        THEN Thrown(patients)           \* unique(patient_id)
        ELSE Done(Append(patients, row), <<row>>)

PatientColumns ==
    {"id", "patientId", "name", "district", "healthStatus", "registeredAt"}

\* whether a health record or a disease case references patient id
PatientReferenced(id) ==
    \/ \E r \in Range(healthRecords) : r.patientId = id
    \/ \E r \in Range(diseaseCases) : r.patientId = id

\* db.update(patients).set(updates).where(eq(patients.id, id)).returning()
updatePatient(id, updates) ==
    LET hit == {i \in 1..Len(patients) : patients[i].id = id}
    IN  IF DOMAIN updates \cap PatientColumns = {}
        THEN Thrown(patients)           \* no values to set
        ELSE IF "registeredAt" \in DOMAIN updates
        THEN Thrown(patients)           \* a JSON value is no Date
        ELSE IF "healthStatus" \in DOMAIN updates
                /\ updates.healthStatus \notin healthStatusEnum
        THEN Thrown(patients)           \* not a value of the enum
        ELSE IF hit = {}
        THEN Done(patients, <<>>)
        ELSE LET i == CHOOSE i \in hit : TRUE
                 row == Merge(patients[i], Restrict(updates, PatientColumns))
             IN  IF PatientIdTaken(row.patientId, i)
                 THEN Thrown(patients)  \* unique(patient_id)
                 ELSE IF \E j \in 1..Len(patients) : j # i /\ patients[j].id = row.id
                 THEN Thrown(patients)  \* primary key
                 ELSE IF row.id # id /\ PatientReferenced(id)
                 THEN Thrown(patients)  \* a foreign key still names the old id
                 ELSE Done([patients EXCEPT ![i] = row], <<row>>)


\* the rows of set S in an order that is descending in column col, every such
\* order: the order among equal values is the database's choice
RECURSIVE OrderByDesc(_, _)
OrderByDesc(S, col) ==
    IF S = {} THEN {<<>>}
    ELSE UNION {{<<r>> \o rest : rest \in OrderByDesc(S \ {r}, col)} :
                  r \in {x \in S : \A y \in S : y[col] <= x[col]}}

\* JavaScript truthiness of a text value (a key absent is undefined)
TruthyText(o, k) == k \in DOMAIN o /\ o[k] # <<>>

\* the same of a value of an enum, which the model writes as one word
TruthyWord(o, k) == k \in DOMAIN o /\ o[k] # ""

\* a number taken for set whenever it is not NaN
TruthyNumberDefined(o, k) == k \in DOMAIN o /\ o[k] # <<>>

\* a number is <<n>> and NaN is <<>>; both 0 and NaN are falsy
TruthyNumber(o, k) == k \in DOMAIN o /\ o[k] # <<>> /\ o[k][1] # 0

\* the WHERE clause of getPatients
PatientMatches(row, filters) ==
    /\ TruthyText(filters, "district") =>
         Like(row.district, <<"%">> \o filters.district \o <<"%">>)
    /\ TruthyWord(filters, "healthStatus") => row.healthStatus = filters.healthStatus
    /\ TruthyText(filters, "search") =>
         \/ ILike(row.name, <<"%">> \o filters.search \o <<"%">>)
         \/ ILike(row.patientId, <<"%">> \o filters.search \o <<"%">>)

\* LIMIT and OFFSET: skip offset rows, then keep limit rows
LimitOffset(rows, filters) ==
    LET from == IF TruthyNumber(filters, "offset") THEN filters.offset[1] ELSE 0
        upto == IF TruthyNumber(filters, "limit")
                THEN from + filters.limit[1] ELSE Len(rows)
    IN  SubSeq(rows, from + 1, IF upto < Len(rows) THEN upto ELSE Len(rows))

\* getPatients(filters): whether the query runs and the results it may return
getPatients(filters) ==
    IF \/ TruthyWord(filters, "healthStatus")
          /\ filters.healthStatus \notin healthStatusEnum   \* no value of the enum
       \/ TruthyNumber(filters, "limit") /\ filters.limit[1] < 0
       \/ TruthyNumber(filters, "offset") /\ filters.offset[1] < 0
    THEN [ok |-> FALSE, results |-> {}]
    ELSE [ok |-> TRUE,
          results |->
            {LimitOffset(rows, filters) :
               rows \in OrderByDesc({r \in Range(patients) : PatientMatches(r, filters)},
                                    "registeredAt")}]

(***************************************************************************)
(* Health records, diseases, disease cases, health alerts                  *)
(***************************************************************************)
insertHealthRecordSchema(body) ==
    ParseInsert(body, {"patientId", "checkupDate"}, {}, "", {})

insertDiseaseSchema(body) ==
    ParseInsert(body, {"name", "type"}, {}, "type", diseaseTypeEnum)

insertDiseaseCaseSchema(body) ==
    ParseInsert(body, {"patientId", "diseaseId"}, {"status"}, "", {})

insertHealthAlertSchema(body) ==
    ParseInsert(body, {"title", "severity"}, {"isActive", "diseaseId"},
                "severity", alertSeverityEnum)

\* the reference to patients.id without its foreign key
PatientExistsUnchecked(id) == TRUE

PatientExists(id) == \E r \in Range(patients) : r.id = id

DiseaseExists(id) == \E r \in Range(diseases) : r.id = id

\* db.insert(healthRecords).values(insertRecord).returning()
createHealthRecord(insertRecord, createdAt) ==
    LET row == [id |-> ValueOrDefault(insertRecord, "id", NewId(healthRecords)),
                patientId |-> insertRecord.patientId,
                checkupDate |-> insertRecord.checkupDate,
                createdAt |-> createdAt]
    IN  IF ~({"patientId", "checkupDate"} \subseteq DOMAIN insertRecord)
        THEN Thrown(healthRecords)      \* NOT NULL
        ELSE IF "createdAt" \in DOMAIN insertRecord
        THEN Thrown(healthRecords)      \* a JSON value is no Date
        ELSE IF IdTaken(healthRecords, row.id)
        THEN Thrown(healthRecords)      \* primary key
        ELSE IF ~PatientExists(insertRecord.patientId)
        THEN Thrown(healthRecords)      \* references patients.id
        ELSE Done(Append(healthRecords, row), <<row>>)

\* the insert into diseases without the unique constraint on name
createDiseaseNameNotUnique(insertDisease) ==
    LET row == [id |-> ValueOrDefault(insertDisease, "id", NewId(diseases)),
                name |-> insertDisease.name,
                type |-> insertDisease.type]
    IN  IF ~({"name", "type"} \subseteq DOMAIN insertDisease)
        THEN Thrown(diseases)
        ELSE IF IdTaken(diseases, row.id)
        THEN Thrown(diseases)
        ELSE IF insertDisease.type \notin diseaseTypeEnum
        THEN Thrown(diseases)
        ELSE Done(Append(diseases, row), <<row>>)

\* db.insert(diseases).values(insertDisease).returning()
createDisease(insertDisease) ==
    LET row == [id |-> ValueOrDefault(insertDisease, "id", NewId(diseases)),
                name |-> insertDisease.name,
                type |-> insertDisease.type]
    IN  IF ~({"name", "type"} \subseteq DOMAIN insertDisease)
        THEN Thrown(diseases)           \* NOT NULL
        ELSE IF IdTaken(diseases, row.id)
        THEN Thrown(diseases)           \* primary key
        ELSE IF insertDisease.type \notin diseaseTypeEnum
        THEN Thrown(diseases)           \* not a value of the enum
        ELSE IF \E r \in Range(diseases) : r.name = insertDisease.name
        THEN Thrown(diseases)           \* unique(name)
        ELSE Done(Append(diseases, row), <<row>>)

\* db.insert(diseaseCases).values(insertCase).returning()
createDiseaseCase(insertCase, reportedAt) ==
    LET row == [id |-> ValueOrDefault(insertCase, "id", NewId(diseaseCases)),
                patientId |-> insertCase.patientId,
                diseaseId |-> insertCase.diseaseId,
                status |-> ValueOrDefault(insertCase, "status", "active"),
                reportedAt |-> reportedAt]
    IN  IF ~({"patientId", "diseaseId"} \subseteq DOMAIN insertCase)
        THEN Thrown(diseaseCases)       \* NOT NULL
        ELSE IF "reportedAt" \in DOMAIN insertCase
        THEN Thrown(diseaseCases)       \* a JSON value is no Date
        ELSE IF IdTaken(diseaseCases, row.id)
        THEN Thrown(diseaseCases)       \* primary key
        ELSE IF ~PatientExists(insertCase.patientId)
        THEN Thrown(diseaseCases)       \* references patients.id
        ELSE IF ~DiseaseExists(insertCase.diseaseId)
        THEN Thrown(diseaseCases)       \* references diseases.id
        ELSE Done(Append(diseaseCases, row), <<row>>)

\* db.insert(healthAlerts).values(insertAlert).returning()
createHealthAlert(insertAlert, createdAt) ==
    LET row == [id |-> ValueOrDefault(insertAlert, "id", NewId(healthAlerts)),
                title |-> insertAlert.title,
                severity |-> insertAlert.severity,
                isActive |-> ValueOrDefault(insertAlert, "isActive", TRUE),
                diseaseId |-> ValueOrDefault(insertAlert, "diseaseId", Null),
                createdAt |-> createdAt]
    IN  IF ~({"title", "severity"} \subseteq DOMAIN insertAlert)
        THEN Thrown(healthAlerts)       \* NOT NULL
        ELSE IF "createdAt" \in DOMAIN insertAlert
        THEN Thrown(healthAlerts)       \* a JSON value is no Date
        ELSE IF IdTaken(healthAlerts, row.id)
        THEN Thrown(healthAlerts)       \* primary key
        ELSE IF insertAlert.severity \notin alertSeverityEnum
        THEN Thrown(healthAlerts)       \* not a value of the enum
        ELSE IF row.diseaseId # Null /\ ~DiseaseExists(row.diseaseId)
        THEN Thrown(healthAlerts)       \* references diseases.id
        ELSE Done(Append(healthAlerts, row), <<row>>)

HealthAlertColumns ==
    {"id", "title", "severity", "isActive", "diseaseId", "createdAt"}

\* an update that returns the row as it was read, not as it is stored
updateHealthAlertReturningOld(id, updates) ==
    LET hit == {i \in 1..Len(healthAlerts) : healthAlerts[i].id = id}
    IN  IF DOMAIN updates \cap HealthAlertColumns = {}
        THEN Thrown(healthAlerts)
        ELSE IF "createdAt" \in DOMAIN updates
        THEN Thrown(healthAlerts)
        ELSE IF "severity" \in DOMAIN updates
                /\ updates.severity \notin alertSeverityEnum
        THEN Thrown(healthAlerts)
        ELSE IF hit = {}
        THEN Done(healthAlerts, <<>>)
        ELSE LET i == CHOOSE i \in hit : TRUE
                 row == Merge(healthAlerts[i], Restrict(updates, HealthAlertColumns))
             IN  Done([healthAlerts EXCEPT ![i] = row], <<healthAlerts[i]>>)

\* db.update(healthAlerts).set(updates).where(eq(healthAlerts.id, id)).returning()
updateHealthAlert(id, updates) ==
    LET hit == {i \in 1..Len(healthAlerts) : healthAlerts[i].id = id}
    IN  IF DOMAIN updates \cap HealthAlertColumns = {}
        THEN Thrown(healthAlerts)       \* no values to set
        ELSE IF "createdAt" \in DOMAIN updates
        THEN Thrown(healthAlerts)       \* a JSON value is no Date
        ELSE IF "severity" \in DOMAIN updates
                /\ updates.severity \notin alertSeverityEnum
        THEN Thrown(healthAlerts)       \* not a value of the enum
        ELSE IF hit = {}
        THEN Done(healthAlerts, <<>>)
        ELSE LET i == CHOOSE i \in hit : TRUE
                 row == Merge(healthAlerts[i], Restrict(updates, HealthAlertColumns))
             IN  IF \E j \in 1..Len(healthAlerts) :
                        j # i /\ healthAlerts[j].id = row.id
                 THEN Thrown(healthAlerts)  \* primary key
                 ELSE IF row.diseaseId # Null /\ ~DiseaseExists(row.diseaseId)
                 THEN Thrown(healthAlerts)  \* references diseases.id
                 ELSE Done([healthAlerts EXCEPT ![i] = row], <<row>>)

(***************************************************************************)
(* Lookups and reports                                                     *)
(***************************************************************************)
\* db.select().from(t).where(eq(t.id, id)): the rows of that id, in table order
SelectById(rows, id) == SelectSeq(rows, LAMBDA r : r.id = id)

\* a lookup that forgets its WHERE clause
getPatientByIdUnfiltered(id) ==
    IF patients = <<>> THEN <<>> ELSE <<Head(patients)>>

\* getPatientById(id): the first row of that id as <<row>>, and <<>> for the
\* undefined returned when there is none
getPatientById(id) ==
    LET found == SelectById(patients, id)
    IN  IF found = <<>> THEN <<>> ELSE <<Head(found)>>

\* a lookup that selects the columns of the request and not the stamp
getHealthRecordByIdPartial(id) ==
    LET found == SelectById(healthRecords, id)
    IN  IF found = <<>> THEN <<>>
        ELSE <<Restrict(Head(found), {"id", "patientId", "checkupDate"})>>

\* getHealthRecordById(id), likewise
getHealthRecordById(id) ==
    LET found == SelectById(healthRecords, id)
    IN  IF found = <<>> THEN <<>> ELSE <<Head(found)>>

\* the counts with every alert counted as active
getDashboardStatsAllAlerts ==
    [totalPatients |-> getPatientsCount,
     activeAlerts |-> Len(healthAlerts),
     totalScreenings |-> Len(healthRecords),
     totalDiseaseCases |-> Len(diseaseCases)]

\* getDashboardStats(): four counts, each by a query of its own
getDashboardStats ==
    [totalPatients |-> getPatientsCount,
     activeAlerts |-> Cardinality({i \in 1..Len(healthAlerts) : healthAlerts[i].isActive = TRUE}),
     totalScreenings |-> Cardinality(1..Len(healthRecords)),
     totalDiseaseCases |-> Cardinality(1..Len(diseaseCases))]

\* the statistics with an inner join in place of the left join
getDiseaseStatsInnerJoin ==
    LET groups == {[id |-> d.id, name |-> d.name,
                    count |-> Cardinality({i \in 1..Len(diseaseCases) :
                                             diseaseCases[i].diseaseId = d.id})] :
                     d \in {x \in Range(diseases) :
                              \E i \in 1..Len(diseaseCases) :
                                 diseaseCases[i].diseaseId = x.id}}
    IN  {[i \in 1..Len(ordered) |->
            [name |-> ordered[i].name, count |-> ordered[i].count]] :
           ordered \in OrderByDesc(groups, "count")}

\* getDiseaseStats(): diseases left-joined to their cases and grouped by
\* (diseases.id, diseases.name), the groups in an order descending in count;
\* the results it may return
getDiseaseStats ==
    LET groups == {[id |-> d.id, name |-> d.name,
                    count |-> Cardinality({i \in 1..Len(diseaseCases) :
                                       diseaseCases[i].diseaseId = d.id})] :
                     d \in Range(diseases)}
    IN  {[i \in 1..Len(ordered) |->
            [name |-> ordered[i].name, count |-> ordered[i].count]] :
           ordered \in OrderByDesc(groups, "count")}

\* the alerts with the flag ignored
getHealthAlertsUnfiltered(activeOnly) == OrderByDesc(Range(healthAlerts), "createdAt")

\* getHealthAlerts(activeOnly): the results it may return
getHealthAlerts(activeOnly) ==
    OrderByDesc({r \in Range(healthAlerts) : activeOnly => r.isActive = TRUE},
                "createdAt")

\* a column of the joined side of a left join: <<v>>, or <<>> for the null of
\* a row with no match
Joined(rows, id, col) ==
    LET found == SelectById(rows, id)
    IN  IF found = <<>> THEN <<>> ELSE <<Head(found)[col]>>

\* FROM disease_cases LEFT JOIN patients LEFT JOIN diseases: every case, with
\* the name and district of its patient and the name of its disease
CasesJoined ==
    {Merge(c, [patientName |-> Joined(patients, c.patientId, "name"),
               patientDistrict |-> Joined(patients, c.patientId, "district"),
               diseaseName |-> Joined(diseases, c.diseaseId, "name")]) :
       c \in Range(diseaseCases)}

\* the empty string where the query holds an id: the id of no row
EmptyId == -1

\* an id of the query taken for set whenever the query names it
TruthyIdPresent(o, k) == k \in DOMAIN o

\* JavaScript truthiness of an id of the query (a key absent is undefined)
TruthyId(o, k) == k \in DOMAIN o /\ o[k] # EmptyId

\* getHealthRecords(patientId): the results it may return; the argument is
\* held as the object with the key patientId, or without it when undefined
getHealthRecords(filters) ==
    OrderByDesc({r \in Range(healthRecords) :
                   TruthyId(filters, "patientId") => r.patientId = filters.patientId},
                "checkupDate")

\* the WHERE clause of getDiseaseCases; LIKE of a null is not true
CaseMatches(row, filters) ==
    /\ TruthyId(filters, "patientId") => row.patientId = filters.patientId
    /\ TruthyId(filters, "diseaseId") => row.diseaseId = filters.diseaseId
    /\ TruthyText(filters, "district") =>
         /\ row.patientDistrict # <<>>
         /\ Like(row.patientDistrict[1], <<"%">> \o filters.district \o <<"%">>)
    /\ TruthyWord(filters, "status") => row.status = filters.status

\* getDiseaseCases(filters): the results it may return
getDiseaseCases(filters) ==
    OrderByDesc({r \in CasesJoined : CaseMatches(r, filters)}, "reportedAt")

(***************************************************************************)
(* Users                                                                   *)
(***************************************************************************)
\* role: text("role").notNull().default("health_worker")
DefaultRole == <<"h">>

\* db.insert(users).values(insertUser).returning()
createUser(insertUser, createdAt) ==
    LET row == [id |-> NewId(users),
                username |-> insertUser.username,
                password |-> insertUser.password,
                name |-> insertUser.name,
                role |-> ValueOrDefault(insertUser, "role", DefaultRole),
                createdAt |-> createdAt]
    IN  IF \E r \in Range(users) : r.username = insertUser.username
        THEN Thrown(users)              \* unique(username)
        ELSE Done(Append(users, row), <<row>>)

(***************************************************************************)
(* Responses                                                               *)
(***************************************************************************)
\* a response: the route, the status, the message of an error body, the :id of
\* the path, the request body, the rows of a success body, the field errors of
\* a 400; and, to reason about it, the count createPatient read and whether
\* the handler called the storage layer
Response(op, status, message, id, req, rows, errors, count, called) ==
    [op |-> op, status |-> status, message |-> message, id |-> id, req |-> req,
     rows |-> rows, errors |-> errors, count |-> count, called |-> called]

NoResponse == Response("none", 0, "", 0, EmptyObject, <<>>, {}, 0, FALSE)

InFlight == {c \in Clients : pc[c] # "idle"}

(***************************************************************************)
(* Route handlers                                                          *)
(***************************************************************************)
\* POST /api/patients up to createPatient's count query: the body is parsed,
\* and a valid one goes on to read the patient count
PostPatients(c, body) ==
    LET parsed == insertPatientSchema(body)
    IN  /\ pc[c] = "idle"
        /\ IF ~parsed.ok
           THEN /\ resp' = Response("POST /api/patients", 400, "Invalid patient data",
                                    0, body, <<>>, parsed.errors, 0, FALSE)
                /\ UNCHANGED <<pc, insertPatient, patientCount, patientId>>
           ELSE /\ Len(patients) + Cardinality(InFlight) < MaxPatients
                /\ pc' = [pc EXCEPT ![c] = "insert"]
                /\ insertPatient' = [insertPatient EXCEPT ![c] = parsed.data]
                /\ patientCount' = [patientCount EXCEPT ![c] = getPatientsCount]
                /\ patientId' = [patientId EXCEPT
                                    ![c] = GeneratePatientId(getPatientsCount)]
                /\ UNCHANGED resp
        /\ UNCHANGED <<tables, seeded,
                       aside, invalidated>>

\* createPatient's insert and the response of POST /api/patients
CreatePatientInsert(c, registeredAt) ==
    /\ pc[c] = "insert"
    /\ LET values == Merge(insertPatient[c], [patientId |-> patientId[c]])
             result == InsertPatientRow(values, registeredAt)
         IN  /\ patients' = result.rows
             /\ resp' = IF result.ok
                        THEN Response("POST /api/patients", 201, "", 0,
                                      insertPatient[c], result.returned, {},
                                      patientCount[c], TRUE)
                        ELSE Response("POST /api/patients", 500,
                                      "Failed to create patient", 0,
                                      insertPatient[c], <<>>, {}, patientCount[c],
                                      TRUE)
    /\ pc' = [pc EXCEPT ![c] = "idle"]
    /\ insertPatient' = [insertPatient EXCEPT ![c] = EmptyObject]
    /\ patientCount' = [patientCount EXCEPT ![c] = 0]
    /\ patientId' = [patientId EXCEPT ![c] = <<>>]
    /\ UNCHANGED <<healthRecords, diseases, diseaseCases, healthAlerts, seeded,
                       aside, invalidated>>

\* PUT /api/patients/:id
PutPatient(id, body) ==
    LET result == updatePatient(id, body)
    IN  /\ patients' = result.rows
        /\ resp' = IF result.ok
                   THEN Response("PUT /api/patients/:id", 200, "", id, body,
                                 result.returned, {}, 0, TRUE)
                   ELSE Response("PUT /api/patients/:id", 500,
                                 "Failed to update patient", id, body, <<>>, {}, 0,
                                 TRUE)
        /\ UNCHANGED <<healthRecords, diseases, diseaseCases, healthAlerts, seeded,
                       pc, insertPatient, patientCount, patientId,
                       aside, invalidated>>

\* parseInt of a query value: the digits it starts with, after a minus sign
\* if any, and NaN when there are none
parseInt(s) ==
    LET negative == s # <<>> /\ Head(s) = "-"
        body == IF negative THEN Tail(s) ELSE s
        n == Cardinality({i \in 1..Len(body) : \A j \in 1..i : IsDigit(body[j])})
    IN  IF n = 0 THEN <<>>
        ELSE IF negative THEN <<0 - ParseDecimal(SubSeq(body, 1, n))>>
        ELSE <<ParseDecimal(SubSeq(body, 1, n))>>

\* the filters GET /api/patients hands to getPatients
PatientFilters(query) ==
    LET number(k) == IF k \in DOMAIN query /\ query[k] # <<>>
                     THEN [x \in {k} |-> parseInt(query[k])] ELSE EmptyObject
    IN  Merge(Merge(Restrict(query, {"district", "healthStatus", "search"}),
                    number("limit")), number("offset"))

\* GET /api/patients
GetPatients(query) ==
    LET filters == PatientFilters(query)
        result == getPatients(filters)
    IN  /\ IF result.ok
           THEN \E rows \in result.results :
                  resp' = Response("GET /api/patients", 200, "", 0, filters, rows,
                                   {}, 0, TRUE)
           ELSE resp' = Response("GET /api/patients", 500,
                                 "Failed to fetch patients", 0, filters, <<>>, {},
                                 0, TRUE)
        /\ UNCHANGED <<tables, seeded, pc, insertPatient, patientCount, patientId,
                       aside, invalidated>>

\* what a POST handler answers: 400 and the field errors when the body does not
\* parse, 201 and the stored row when the insert succeeds, 500 when it throws
PostResponse(op, invalid, failed, body, parsed, result) ==
    IF ~parsed.ok
    THEN Response(op, 400, invalid, 0, body, <<>>, parsed.errors, 0,
                  result.called)
    ELSE IF result.ok
    THEN Response(op, 201, "", 0, body, result.returned, {}, 0, TRUE)
    ELSE Response(op, 500, failed, 0, body, <<>>, {}, 0, result.called)

\* POST /api/health-records, the client left aside
AnswerPostHealthRecords(body, createdAt) ==
    LET parsed == insertHealthRecordSchema(body)
    IN  /\ LET result == IF parsed.ok
                           THEN createHealthRecord(parsed.data, createdAt)
                           ELSE NotCalled(healthRecords)
             IN  /\ healthRecords' = result.rows
                 /\ resp' = PostResponse("POST /api/health-records",
                                         "Invalid health record data",
                                         "Failed to create health record",
                                         body, parsed, result)
        /\ UNCHANGED <<patients, diseases, diseaseCases, healthAlerts, seeded,
                       pc, insertPatient, patientCount, patientId, aside>>

\* POST /api/health-records from a client whose cache is not in view
PostHealthRecords(body, createdAt) == AnswerPostHealthRecords(body, createdAt) /\ UNCHANGED invalidated

\* POST /api/diseases
PostDiseases(body) ==
    LET parsed == insertDiseaseSchema(body)
        result == IF parsed.ok THEN createDisease(parsed.data)
                  ELSE NotCalled(diseases)
    IN  /\ diseases' = result.rows
        /\ resp' = PostResponse("POST /api/diseases", "Invalid disease data",
                                "Failed to create disease", body, parsed, result)
        /\ UNCHANGED <<patients, healthRecords, diseaseCases, healthAlerts, seeded,
                       pc, insertPatient, patientCount, patientId,
                       aside, invalidated>>

\* POST /api/disease-cases, the client left aside
AnswerPostDiseaseCases(body, reportedAt) ==
    LET parsed == insertDiseaseCaseSchema(body)
    IN  /\ LET result == IF parsed.ok
                           THEN createDiseaseCase(parsed.data, reportedAt)
                           ELSE NotCalled(diseaseCases)
             IN  /\ diseaseCases' = result.rows
                 /\ resp' = PostResponse("POST /api/disease-cases",
                                         "Invalid disease case data",
                                         "Failed to create disease case",
                                         body, parsed, result)
        /\ UNCHANGED <<patients, healthRecords, diseases, healthAlerts, seeded,
                       pc, insertPatient, patientCount, patientId, aside>>

\* POST /api/disease-cases from a client whose cache is not in view
PostDiseaseCases(body, reportedAt) == AnswerPostDiseaseCases(body, reportedAt) /\ UNCHANGED invalidated

\* POST /api/health-alerts, the client left aside
AnswerPostHealthAlerts(body, createdAt) ==
    LET parsed == insertHealthAlertSchema(body)
    IN  /\ LET result == IF parsed.ok
                           THEN createHealthAlert(parsed.data, createdAt)
                           ELSE NotCalled(healthAlerts)
             IN  /\ healthAlerts' = result.rows
                 /\ resp' = PostResponse("POST /api/health-alerts",
                                         "Invalid alert data",
                                         "Failed to create health alert",
                                         body, parsed, result)
        /\ UNCHANGED <<patients, healthRecords, diseases, diseaseCases, seeded,
                       pc, insertPatient, patientCount, patientId, aside>>

\* POST /api/health-alerts from a client whose cache is not in view
PostHealthAlerts(body, createdAt) == AnswerPostHealthAlerts(body, createdAt) /\ UNCHANGED invalidated

\* PUT /api/health-alerts/:id
PutHealthAlert(id, body) ==
    LET result == updateHealthAlert(id, body)
    IN  /\ healthAlerts' = result.rows
        /\ resp' = IF result.ok
                   THEN Response("PUT /api/health-alerts/:id", 200, "", id, body,
                                 result.returned, {}, 0, TRUE)
                   ELSE Response("PUT /api/health-alerts/:id", 500,
                                 "Failed to update health alert", id, body,
                                 <<>>, {}, 0, TRUE)
        /\ UNCHANGED <<patients, healthRecords, diseases, diseaseCases, seeded,
                       pc, insertPatient, patientCount, patientId,
                       aside, invalidated>>

\* what a read handler leaves alone
ReadOnly == UNCHANGED <<tables, seeded, pc, insertPatient, patientCount, patientId,
                       aside, invalidated>>

\* GET /api/patients/:id
GetPatientById(id) ==
    LET patient == getPatientById(id)
    IN  /\ resp' = IF patient = <<>>
                   THEN Response("GET /api/patients/:id", 404, "Patient not found",
                                 id, EmptyObject, <<>>, {}, 0, TRUE)
                   ELSE Response("GET /api/patients/:id", 200, "", id, EmptyObject,
                                 patient, {}, 0, TRUE)
        /\ ReadOnly

\* GET /api/health-records/:id
GetHealthRecordById(id) ==
    LET record == getHealthRecordById(id)
    IN  /\ resp' = IF record = <<>>
                   THEN Response("GET /api/health-records/:id", 404,
                                 "Health record not found", id, EmptyObject, <<>>,
                                 {}, 0, TRUE)
                   ELSE Response("GET /api/health-records/:id", 200, "", id,
                                 EmptyObject, record, {}, 0, TRUE)
        /\ ReadOnly

\* GET /api/dashboard/stats
GetDashboardStats ==
    /\ resp' = Response("GET /api/dashboard/stats", 200, "", 0, EmptyObject,
                        <<getDashboardStats>>, {}, 0, TRUE)
    /\ ReadOnly

\* no getDashboardStats is under way
NotReading ==
    [at |-> "idle", patientsCount |-> 0, alertsCount |-> 0, recordsCount |-> 0]

\* what a step of getDashboardStats leaves alone
DashboardFrame ==
    UNCHANGED <<tables, seeded, pc, insertPatient, patientCount, patientId, users,
                invalidated>>

\* GET /api/dashboard/stats, query by query: other requests run between the
\* awaits.  The first query counts the patients,
DashboardPatients ==
    /\ dashboard.at = "idle"
    /\ dashboard' = [dashboard EXCEPT !.at = "alerts",
                                      !.patientsCount = getDashboardStats.totalPatients]
    /\ UNCHANGED resp
    /\ DashboardFrame

\* the second the active alerts,
DashboardAlerts ==
    /\ dashboard.at = "alerts"
    /\ dashboard' = [dashboard EXCEPT !.at = "records",
                                      !.alertsCount = getDashboardStats.activeAlerts]
    /\ UNCHANGED resp
    /\ DashboardFrame

\* the third the health records,
DashboardRecords ==
    /\ dashboard.at = "records"
    /\ dashboard' = [dashboard EXCEPT !.at = "cases",
                                      !.recordsCount = getDashboardStats.totalScreenings]
    /\ UNCHANGED resp
    /\ DashboardFrame

\* the last step with all four counts taken at its time
DashboardCasesCountingAll ==
    /\ dashboard.at = "cases"
    /\ dashboard' = NotReading
    /\ resp' = Response("GET /api/dashboard/stats", 200, "", 0, EmptyObject,
                        <<getDashboardStats>>, {}, 0, TRUE)
    /\ DashboardFrame

\* and the last the disease cases; the four counts are the response
DashboardCases ==
    /\ dashboard.at = "cases"
    /\ dashboard' = NotReading
    /\ resp' = Response("GET /api/dashboard/stats", 200, "", 0, EmptyObject,
                        <<[totalPatients |-> dashboard.patientsCount,
                           activeAlerts |-> dashboard.alertsCount,
                           totalScreenings |-> dashboard.recordsCount,
                           totalDiseaseCases |-> getDashboardStats.totalDiseaseCases]>>,
                        {}, 0, TRUE)
    /\ DashboardFrame

\* GET /api/disease-cases/stats
GetDiseaseStats ==
    /\ \E stats \in getDiseaseStats :
         resp' = Response("GET /api/disease-cases/stats", 200, "", 0, EmptyObject,
                          stats, {}, 0, TRUE)
    /\ ReadOnly

\* GET /api/disease-cases
GetDiseaseCases(query) ==
    LET filters == Restrict(query, {"patientId", "diseaseId", "district", "status"})
    IN  /\ \E cases \in getDiseaseCases(filters) :
             resp' = Response("GET /api/disease-cases", 200, "", 0, filters, cases,
                              {}, 0, TRUE)
        /\ ReadOnly

\* GET /api/health-records
GetHealthRecords(query) ==
    LET filters == Restrict(query, {"patientId"})
    IN  /\ \E records \in getHealthRecords(filters) :
             resp' = Response("GET /api/health-records", 200, "", 0, filters,
                              records, {}, 0, TRUE)
        /\ ReadOnly

\* the text 'true'
TrueText == <<"t", "r", "u", "e">>

\* GET /api/health-alerts
GetHealthAlerts(query) ==
    LET activeOnly == "activeOnly" \in DOMAIN query /\ query.activeOnly = TrueText
    IN  /\ \E alerts \in getHealthAlerts(activeOnly) :
             resp' = Response("GET /api/health-alerts", 200, "", 0,
                              Restrict(query, {"activeOnly"}), alerts, {}, 0, TRUE)
        /\ ReadOnly

\* createUser as a caller would call it: no route does; what it returned, or
\* nothing when it threw, is kept as the outcome
CreateUser(insertUser, createdAt) ==
    LET result == createUser(insertUser, createdAt)
    IN  /\ users' = result.rows
        /\ resp' = Response("createUser", 0, "", 0, insertUser, result.returned,
                            {}, 0, TRUE)
        /\ UNCHANGED <<tables, seeded, pc, insertPatient, patientCount, patientId,
                       dashboard, invalidated>>

(***************************************************************************)
(* The client's cache of query results                                     *)
(***************************************************************************)
\* apiRequest: whether the request resolves; a response that is not 2xx makes
\* it throw the error the onError handlers show
apiRequest(response) == response.status >= 200 /\ response.status < 300

\* queryClient.invalidateQueries({ queryKey }) for each of the keys
invalidateQueries(cache, queryKeys) == cache \cup queryKeys

\* the health-record mutation with the dashboard left out of its onSuccess
createHealthRecordOnSuccessListOnly == {"/api/health-records"}

\* the query keys the onSuccess of each mutation invalidates
createHealthRecordOnSuccess == {"/api/health-records", "/api/dashboard/stats"}

createDiseaseCaseOnSuccess == {"/api/disease-cases", "/api/dashboard/stats"}

createHealthAlertOnSuccess == {"/api/health-alerts"}

\* useMutation: onSuccess runs when mutationFn resolved, onError, which
\* leaves the cache alone, when it threw
Settled(queryKeys) ==
    invalidated' = IF apiRequest(resp')
                   THEN invalidateQueries(invalidated, queryKeys)
                   ELSE invalidated

createHealthRecordMutation(data, createdAt) ==
    AnswerPostHealthRecords(data, createdAt) /\ Settled(createHealthRecordOnSuccess)

createDiseaseCaseMutation(data, reportedAt) ==
    AnswerPostDiseaseCases(data, reportedAt) /\ Settled(createDiseaseCaseOnSuccess)

createHealthAlertMutation(data, createdAt) ==
    AnswerPostHealthAlerts(data, createdAt) /\ Settled(createHealthAlertOnSuccess)

\* useQuery: an invalidated query is fetched again and is fresh
Refetch(queryKey) ==
    /\ queryKey \in invalidated
    /\ invalidated' = invalidated \ {queryKey}
    /\ UNCHANGED <<tables, seeded, pc, insertPatient, patientCount, patientId,
                   resp, aside>>

(***************************************************************************)
(* Requests the clients send                                               *)
(***************************************************************************)
\* an id no row has: the ids generated are 1, 2, ... in each table
NoSuchId == MaxPatients + MaxRows + 1

\* an id a client chooses
ClientId == NoSuchId + 1

\* a creation time a client writes into a body: one the server clock, which
\* starts at 1, never shows
ClientStamp == 0

PatientBodies ==
    {[name |-> <<"A">>, district |-> <<"K">>],
     [district |-> <<"K">>],
     [name |-> <<"A">>, district |-> <<"K">>,
      id |-> ClientId, patientId |-> <<"X">>, registeredAt |-> ClientStamp]}

PatientBodiesWide ==
    PatientBodies
    \cup {[name |-> <<"B">>, district |-> <<"K", "o">>, healthStatus |-> "critical"]}

PatientUpdates ==
    {EmptyObject,
     [name |-> <<"B">>],
     [healthStatus |-> "bogus"],
     [patientId |-> GeneratePatientId(1)],
     [id |-> ClientId]}

HealthRecordBodies ==
    {[patientId |-> 1, checkupDate |-> 1],
     [patientId |-> 1, checkupDate |-> 1, id |-> ClientId],
     [patientId |-> NoSuchId, checkupDate |-> 1],
     [patientId |-> 1]}

DiseaseBodies ==
    {[name |-> <<"D">>, type |-> "infectious"],
     [name |-> <<"D">>]}

DiseaseCaseBodies ==
    {[patientId |-> 1, diseaseId |-> 1],
     [patientId |-> NoSuchId, diseaseId |-> 1],
     [patientId |-> 1, diseaseId |-> NoSuchId],
     [patientId |-> 1]}

HealthAlertBodies ==
    {[title |-> <<"T">>, severity |-> "high"],
     [title |-> <<"T">>, severity |-> "high", createdAt |-> ClientStamp],
     [title |-> <<"T">>]}

HealthAlertUpdates ==
    {EmptyObject,
     [isActive |-> FALSE],
     [severity |-> "bogus"]}

Dengue == <<"D", "e", "n", "g", "u", "e">>

DiseaseBodiesWide ==
    DiseaseBodies \cup {[name |-> Dengue, type |-> "chronic"]}

DiseaseCaseBodiesWide ==
    {[patientId |-> 1, diseaseId |-> 1],
     [patientId |-> 1, diseaseId |-> 2],
     [patientId |-> 1, diseaseId |-> 1, status |-> "recovered"],
     [patientId |-> 2, diseaseId |-> 2]}

DiseaseCaseQueries ==
    {EmptyObject,
     [patientId |-> 1],
     [patientId |-> NoSuchId],
     [diseaseId |-> 2],
     [status |-> "recovered"],
     [district |-> <<"o">>],
     [district |-> <<"_">>],
     [diseaseId |-> 1, status |-> "active"],
     [patientId |-> 1, district |-> <<"K">>]}

HealthAlertBodiesWide ==
    HealthAlertBodies
    \cup {[title |-> <<"U">>, severity |-> "low", isActive |-> FALSE]}

HealthAlertQueries ==
    {EmptyObject,
     [activeOnly |-> TrueText],
     [activeOnly |-> <<"T", "R", "U", "E">>],
     [activeOnly |-> <<"1">>],
     [activeOnly |-> <<>>]}

PatientIds == (1..MaxPatients) \cup {NoSuchId}

RowIds == (1..MaxRows) \cup {NoSuchId}

(***************************************************************************)
(* The server behind its API                                               *)
(***************************************************************************)
InitTables ==
    /\ patients = <<>>
    /\ healthRecords = <<>>
    /\ diseases = <<>>
    /\ diseaseCases = <<>>
    /\ healthAlerts = <<>>

InitClients ==
    /\ pc = [c \in Clients |-> "idle"]
    /\ insertPatient = [c \in Clients |-> EmptyObject]
    /\ patientCount = [c \in Clients |-> 0]
    /\ patientId = [c \in Clients |-> <<>>]
    /\ resp = NoResponse
    /\ users = <<>>
    /\ dashboard = NotReading
    /\ invalidated = {}

Init == InitTables /\ InitClients /\ seeded = 0

\* every route that writes, the lookups by id and the dashboard, one request
\* at a time; each table holds at most MaxRows rows
Next ==
    \/ \E body \in PatientBodies :
         /\ insertPatientSchema(body).ok => Len(patients) < MaxRows
         /\ PostPatients(1, body)
    \/ \E at \in Later(patients, "registeredAt") : CreatePatientInsert(1, at)
    \/ \E id \in RowIds, body \in PatientUpdates : PutPatient(id, body)
    \/ \E body \in HealthRecordBodies, at \in Later(healthRecords, "createdAt") :
         PostHealthRecords(body, at) /\ Len(healthRecords') <= MaxRows
    \/ \E body \in DiseaseBodies : PostDiseases(body) /\ Len(diseases') <= MaxRows
    \/ \E body \in DiseaseCaseBodies, at \in Later(diseaseCases, "reportedAt") :
         PostDiseaseCases(body, at) /\ Len(diseaseCases') <= MaxRows
    \/ \E body \in HealthAlertBodies, at \in Later(healthAlerts, "createdAt") :
         PostHealthAlerts(body, at) /\ Len(healthAlerts') <= MaxRows
    \/ \E id \in RowIds, body \in HealthAlertUpdates : PutHealthAlert(id, body)
    \/ \E id \in RowIds \cup {ClientId} : GetPatientById(id)
    \/ \E id \in RowIds : GetHealthRecordById(id)
    \/ GetDashboardStats

Spec == Init /\ [][Next]_vars

\* numbers of patients registered before the window
SeedCounts == {0, 41, 999998}

InitPatients == InitTables /\ InitClients /\ seeded \in SeedCounts

\* the patient routes that write, their requests interleaved
NextPatients ==
    \/ \E c \in Clients, body \in PatientBodiesWide : PostPatients(c, body)
    \/ \E c \in Clients, at \in Later(patients, "registeredAt") :
         CreatePatientInsert(c, at)
    \/ \E id \in PatientIds, body \in PatientUpdates : PutPatient(id, body)

SpecPatients == InitPatients /\ [][NextPatients]_vars

DistrictQueries == {EmptyObject, [district |-> <<"K">>], [district |-> <<"_">>]}

PageQueries ==
    {Merge(l, o) : l \in {EmptyObject, [limit |-> <<"0">>], [limit |-> <<"1">>]},
                   o \in {EmptyObject, [offset |-> <<"1">>]}}

\* the filters in every combination, and the district filter with paging
PatientQueries ==
    {Merge(Merge(d, h), t) :
        d \in DistrictQueries,
        h \in {EmptyObject, [healthStatus |-> "critical"], [healthStatus |-> "bogus"]},
        t \in {EmptyObject, [search |-> <<"a">>], [search |-> <<"m", "w">>]}}
    \cup {Merge(d, page) : d \in DistrictQueries, page \in PageQueries}

\* patients are registered, one request at a time, and listed
NextQuery ==
    \/ \E body \in PatientBodiesWide : PostPatients(1, body)
    \/ \E at \in Now(patients, "registeredAt") : CreatePatientInsert(1, at)
    \/ \E query \in PatientQueries : GetPatients(query)

SpecQuery == Init /\ [][NextQuery]_vars

\* patients, diseases and the cases reported of them, one request at a time,
\* and the reports on the cases
NextCases ==
    \/ \E body \in PatientBodiesWide :
         /\ insertPatientSchema(body).ok => Len(patients) < MaxRows
         /\ PostPatients(1, body)
    \/ \E at \in Later(patients, "registeredAt") : CreatePatientInsert(1, at)
    \/ \E body \in DiseaseBodiesWide :
         PostDiseases(body) /\ Len(diseases') <= MaxDiseases
    \/ \E body \in DiseaseCaseBodiesWide, at \in Now(diseaseCases, "reportedAt") :
         PostDiseaseCases(body, at) /\ Len(diseaseCases') <= MaxCases
    \/ GetDiseaseStats
    \/ \E query \in DiseaseCaseQueries : GetDiseaseCases(query)

SpecCases == Init /\ [][NextCases]_vars

\* alerts are raised and switched off, one request at a time, and listed
NextAlerts ==
    \/ \E body \in HealthAlertBodiesWide, at \in Now(healthAlerts, "createdAt") :
         PostHealthAlerts(body, at) /\ Len(healthAlerts') <= MaxAlerts
    \/ \E id \in 1..MaxAlerts, body \in HealthAlertUpdates : PutHealthAlert(id, body)
    \/ \E query \in HealthAlertQueries : GetHealthAlerts(query)

SpecAlerts == Init /\ [][NextAlerts]_vars

\* patients and alerts are created and updated, one request at a time
NextUpdates ==
    \/ \E body \in PatientBodies : PostPatients(1, body)
    \/ \E at \in Later(patients, "registeredAt") : CreatePatientInsert(1, at)
    \/ \E id \in 1..MaxPatients, body \in PatientUpdates : PutPatient(id, body)
    \/ \E body \in HealthAlertBodies, at \in Later(healthAlerts, "createdAt") :
         PostHealthAlerts(body, at) /\ Len(healthAlerts') <= MaxAlerts
    \/ \E id \in 1..MaxAlerts, body \in HealthAlertUpdates : PutHealthAlert(id, body)

SpecUpdates == Init /\ [][NextUpdates]_vars

\* the updates that leave patientId alone
PatientUpdatesKeepingPatientId == {u \in PatientUpdates : "patientId" \notin DOMAIN u}

\* the patient routes that write, their requests interleaved, with no update
\* of a patientId
NextCreates ==
    \/ \E c \in Clients, body \in PatientBodiesWide : PostPatients(c, body)
    \/ \E c \in Clients, at \in Later(patients, "registeredAt") :
         CreatePatientInsert(c, at)
    \/ \E id \in PatientIds, body \in PatientUpdatesKeepingPatientId :
         PutPatient(id, body)

SpecCreates == InitPatients /\ [][NextCreates]_vars

DiseaseBodiesNamed ==
    DiseaseBodiesWide \cup {[name |-> <<"D">>, type |-> "chronic"]}

\* values of the type InsertUser
InsertUsers ==
    {[username |-> <<"a">>, password |-> <<"p">>, name |-> <<"N">>],
     [username |-> <<"a">>, password |-> <<"q">>, name |-> <<"M">>,
      role |-> <<"d">>],
     [username |-> <<"b">>, password |-> <<"p">>, name |-> <<"N">>]}

\* diseases and users are created, some under a name that is taken
NextNames ==
    \/ \E body \in DiseaseBodiesNamed :
         PostDiseases(body) /\ Len(diseases') <= MaxDiseases
    \/ \E insertUser \in InsertUsers, at \in Now(users, "createdAt") :
         CreateUser(insertUser, at) /\ Len(users') <= MaxUsers

SpecNames == Init /\ [][NextNames]_vars

\* queries whose filters are set, empty or left out
PatientQueriesEmpty ==
    {Merge(Merge(d, h), t) :
        d \in {EmptyObject, [district |-> <<>>], [district |-> <<"o">>]},
        h \in {EmptyObject, [healthStatus |-> ""], [healthStatus |-> "critical"]},
        t \in {EmptyObject, [search |-> <<>>]}}

HealthRecordQueriesEmpty ==
    {EmptyObject, [patientId |-> EmptyId], [patientId |-> 1],
     [patientId |-> NoSuchId]}

DiseaseCaseQueriesEmpty ==
    {EmptyObject,
     [patientId |-> EmptyId],
     [diseaseId |-> EmptyId],
     [district |-> <<>>],
     [status |-> ""],
     [patientId |-> EmptyId, diseaseId |-> EmptyId, district |-> <<>>,
      status |-> ""],
     [patientId |-> EmptyId, diseaseId |-> 1, status |-> "active"],
     [patientId |-> NoSuchId, status |-> ""]}

\* patients, their records, a disease and its cases, one request at a time,
\* and the three lists under filters that are set, empty or left out
NextFilters ==
    \/ \E body \in PatientBodiesWide :
         /\ insertPatientSchema(body).ok => Len(patients) < MaxPatients
         /\ PostPatients(1, body)
    \/ \E at \in Later(patients, "registeredAt") : CreatePatientInsert(1, at)
    \/ \E body \in HealthRecordBodies, at \in Later(healthRecords, "createdAt") :
         PostHealthRecords(body, at) /\ Len(healthRecords') <= MaxRows
    \/ \E body \in DiseaseBodies : PostDiseases(body) /\ Len(diseases') <= MaxRows
    \/ \E body \in DiseaseCaseBodies, at \in Later(diseaseCases, "reportedAt") :
         PostDiseaseCases(body, at) /\ Len(diseaseCases') <= MaxRows
    \/ \E query \in PatientQueriesEmpty : GetPatients(query)
    \/ \E query \in HealthRecordQueriesEmpty : GetHealthRecords(query)
    \/ \E query \in DiseaseCaseQueriesEmpty : GetDiseaseCases(query)

SpecFilters == Init /\ [][NextFilters]_vars

\* the dashboard is read while patients, records, diseases, cases and alerts
\* are created
NextDashboard ==
    \/ \E body \in PatientBodies :
         /\ insertPatientSchema(body).ok => Len(patients) < MaxRows
         /\ PostPatients(1, body)
    \/ \E at \in Later(patients, "registeredAt") : CreatePatientInsert(1, at)
    \/ \E body \in HealthRecordBodies, at \in Later(healthRecords, "createdAt") :
         PostHealthRecords(body, at) /\ Len(healthRecords') <= MaxRows
    \/ \E body \in DiseaseBodies : PostDiseases(body) /\ Len(diseases') <= MaxRows
    \/ \E body \in DiseaseCaseBodies, at \in Later(diseaseCases, "reportedAt") :
         PostDiseaseCases(body, at) /\ Len(diseaseCases') <= MaxRows
    \/ \E body \in HealthAlertBodiesWide, at \in Later(healthAlerts, "createdAt") :
         PostHealthAlerts(body, at) /\ Len(healthAlerts') <= MaxRows
    \/ DashboardPatients
    \/ DashboardAlerts
    \/ DashboardRecords
    \/ DashboardCases

SpecDashboard == Init /\ [][NextDashboard]_vars

\* pages asked for with a limit and an offset that are left out, zero, no
\* number or positive
PagingQueries ==
    {Merge(Merge(d, l), o) :
        d \in {EmptyObject, [district |-> <<"o">>]},
        l \in {EmptyObject, [limit |-> <<"0">>], [limit |-> <<"x">>],
               [limit |-> <<"1">>]},
        o \in {EmptyObject, [offset |-> <<"0">>], [offset |-> <<"x">>],
               [offset |-> <<"1">>]}}

\* patients are registered, one request at a time, and pages of them listed
NextPaging ==
    \/ \E body \in PatientBodiesWide : PostPatients(1, body)
    \/ \E at \in Now(patients, "registeredAt") : CreatePatientInsert(1, at)
    \/ \E query \in PagingQueries : GetPatients(query)

SpecPaging == Init /\ [][NextPaging]_vars

QueryKeys ==
    {"/api/health-records", "/api/disease-cases", "/api/health-alerts",
     "/api/dashboard/stats"}

\* a client creates records, cases and alerts through its mutations and
\* fetches again what they invalidate; patients and diseases are registered
NextClient ==
    \/ \E body \in PatientBodies :
         /\ insertPatientSchema(body).ok => Len(patients) < MaxRows
         /\ PostPatients(1, body)
    \/ \E at \in Later(patients, "registeredAt") : CreatePatientInsert(1, at)
    \/ \E body \in DiseaseBodies : PostDiseases(body) /\ Len(diseases') <= MaxRows
    \/ \E data \in HealthRecordBodies, at \in Later(healthRecords, "createdAt") :
         createHealthRecordMutation(data, at) /\ Len(healthRecords') <= MaxRows
    \/ \E data \in DiseaseCaseBodies, at \in Later(diseaseCases, "reportedAt") :
         createDiseaseCaseMutation(data, at) /\ Len(diseaseCases') <= MaxRows
    \/ \E data \in HealthAlertBodies, at \in Later(healthAlerts, "createdAt") :
         createHealthAlertMutation(data, at) /\ Len(healthAlerts') <= MaxRows
    \/ \E queryKey \in QueryKeys : Refetch(queryKey)

SpecClient == Init /\ [][NextClient]_vars

(***************************************************************************)
(* Properties                                                              *)
(***************************************************************************)
PostPatientsOp == "POST /api/patients"

\* the response of this step is a 201 of POST /api/patients
PatientCreated == resp' # resp /\ resp'.op = PostPatientsOp /\ resp'.status = 201

StoredPatientIds == {patients[i].patientId : i \in 1..Len(patients)}

IsMW(pid) ==
    /\ Len(pid) >= 3
    /\ pid[1] = "M" /\ pid[2] = "W"
    /\ \A i \in 3..Len(pid) : IsDigit(pid[i])

\* C1, as the spec has it: a successful createPatient returns a patientId
\* that no patient stored before holds and that is MW followed by a
\* fixed-width, zero-padded number of six digits.
C1_FixedWidthSixDigits ==
    [][PatientCreated =>
         LET pid == resp'.rows[1].patientId
         IN  /\ pid \notin StoredPatientIds
             /\ ~SeededPatientId(pid, seeded)
             /\ IsMW(pid)
             /\ Len(pid) = 8]_vars

\* C1, amended: a successful createPatient returns a patientId that no patient
\* stored before holds and that is MW followed by the sequence number
\* zero-padded to at least six digits: a number of seven digits or more is
\* written in full, with no leading zero.
C1_UniqueAndPadded ==
    [][PatientCreated =>
         LET pid == resp'.rows[1].patientId
         IN  /\ pid \notin StoredPatientIds
             /\ ~SeededPatientId(pid, seeded)
             /\ IsMW(pid)
             /\ Len(pid) >= 8
             /\ Len(pid) > 8 => pid[3] # "0"]_vars

\* a patient was created beside stored ones under an id of seven digits
C1_Witness ==
    /\ resp.op = PostPatientsOp /\ resp.status = 201
    /\ Len(resp.rows[1].patientId) = 9
    /\ Len(patients) >= 2

\* C2: in every reachable state, whatever the interleaving of POST
\* /api/patients and PUT /api/patients/:id, no two stored patients have the
\* same patientId.
C2_PatientIdsUnique ==
    /\ \A i, j \in 1..Len(patients) :
         i # j => patients[i].patientId # patients[j].patientId
    /\ \A i \in 1..Len(patients) : ~SeededPatientId(patients[i].patientId, seeded)

\* a create that raced for an id another patient now holds was turned down
C2_Witness ==
    /\ patients # <<>>
    /\ resp.op = PostPatientsOp /\ resp.status = 500
    /\ GeneratePatientId(resp.count) \in StoredPatientIds

\* C3: a stored patient keeps the patientId and the id it was created with,
\* whatever requests follow.
C3_PatientIdImmutable ==
    [][\A i \in 1..Len(patients) :
         /\ patients'[i].patientId = patients[i].patientId
         /\ patients'[i].id = patients[i].id]_vars

\* whether no patient was inserted since client c read the count
CountStillCurrent(c) == pc[c] = "insert" /\ seeded + Len(patients) <= patientCount[c]

\* C4: two createPatient calls that have both read the count, with no insert
\* since, hold the same patientId.
C4_SameCountSameId ==
    \A c1, c2 \in Clients :
        CountStillCurrent(c1) /\ CountStillCurrent(c2)
            => patientId[c1] = patientId[c2]

\* two requests wait to insert the same id
C4_Witness ==
    \E c1, c2 \in Clients :
        /\ c1 # c2
        /\ CountStillCurrent(c1) /\ CountStillCurrent(c2)
        /\ patientId[c1] = patientId[c2]

\* C5: createPatient stores one new row: the supplied data, with healthStatus
\* defaulted, under the id MW + (the count it read, plus one) left-padded with
\* zeros to six digits; a count of 41 gives MW000042.
C5_IdIsCountPlusOne ==
    [][PatientCreated =>
         LET row == resp'.rows[1]
             digits == SubSeq(row.patientId, 3, Len(row.patientId))
         IN  /\ IsMW(row.patientId)
             /\ ParseDecimal(digits) = resp'.count + 1
             /\ Len(digits) >= 6
             /\ Len(digits) > 6 => digits[1] # "0"
             /\ resp'.count = 41 =>
                  row.patientId = <<"M", "W", "0", "0", "0", "0", "4", "2">>
             /\ \A k \in DOMAIN resp'.req : row[k] = resp'.req[k]
             /\ "healthStatus" \notin DOMAIN resp'.req => row.healthStatus = "healthy"
             /\ patients' = Append(patients, row)]_vars

\* the 42nd patient was created
C5_Witness ==
    /\ resp.op = PostPatientsOp /\ resp.status = 201
    /\ resp.count = 41
    /\ resp.rows[1].patientId = <<"M", "W", "0", "0", "0", "0", "4", "2">>
    /\ patients # <<>> /\ patients[Len(patients)] = resp.rows[1]
PutOps == {"PUT /api/patients/:id", "PUT /api/health-alerts/:id"}

\* the ids of the table a PUT route updates
IdsOfRoute(op) ==
    IF op = "PUT /api/patients/:id"
    THEN {patients[i].id : i \in 1..Len(patients)}
    ELSE {healthAlerts[i].id : i \in 1..Len(healthAlerts)}

\* C6: a PUT /api/patients/:id or PUT /api/health-alerts/:id for an id no row
\* has is answered 500 with the route's message and leaves the store as it was.
C6_MissingIdIs500 ==
    [][(resp' # resp /\ resp'.op \in PutOps /\ resp'.id \notin IdsOfRoute(resp'.op))
         => /\ resp'.status = 500
            /\ resp'.message \in {"Failed to update patient",
                                  "Failed to update health alert"}
            /\ tables' = tables]_vars

PostOps ==
    {"POST /api/patients", "POST /api/health-records", "POST /api/diseases",
     "POST /api/disease-cases", "POST /api/health-alerts"}

\* the keys a create route requires
RequiredOf(op) ==
    CASE op = "POST /api/patients" -> {"name", "district"}
      [] op = "POST /api/health-records" -> {"patientId", "checkupDate"}
      [] op = "POST /api/diseases" -> {"name", "type"}
      [] op = "POST /api/disease-cases" -> {"patientId", "diseaseId"}
      [] op = "POST /api/health-alerts" -> {"title", "severity"}

\* the keys of a create route that must hold a value of an enum
EnumsOf(op) ==
    CASE op = "POST /api/patients" ->
             [healthStatus |-> {"healthy", "under_treatment", "critical", "recovered"}]
      [] op = "POST /api/diseases" ->
             [type |-> {"infectious", "non_infectious", "chronic", "acute"}]
      [] op = "POST /api/health-alerts" ->
             [severity |-> {"low", "medium", "high", "critical"}]
      [] OTHER -> EmptyObject

\* the fields of a request body that fail the route's schema
FieldErrors(op, body) ==
    {k \in RequiredOf(op) : k \notin DOMAIN body}
    \cup {k \in DOMAIN EnumsOf(op) : k \in DOMAIN body /\ body[k] \notin EnumsOf(op)[k]}

\* C7: a POST whose body fails the schema is answered 400 with the failing
\* fields, calls no storage operation and leaves every table as it was.
C7_InvalidBodyIs400 ==
    [][(resp' # resp /\ resp'.op \in PostOps
          /\ FieldErrors(resp'.op, resp'.req) # {})
         => /\ resp'.status = 400
            /\ resp'.errors = FieldErrors(resp'.op, resp'.req)
            /\ ~resp'.called
            /\ tables' = tables
            /\ seeded' + Len(patients') = seeded + Len(patients)]_vars

\* a patient body without name was turned down while a patient is stored
C7_Witness ==
    /\ resp.op = "POST /api/patients" /\ resp.status = 400
    /\ "name" \in resp.errors
    /\ patients # <<>>

\* whether text s holds sub as a run of consecutive characters
Contains(s, sub) ==
    \E i \in 0..(Len(s) - Len(sub)) : SubSeq(s, i + 1, i + Len(sub)) = sub

\* the response of this step is a 200 of GET /api/patients
PatientsListed ==
    resp' # resp /\ resp'.op = "GET /api/patients" /\ resp'.status = 200

\* whether a patient satisfies every filter supplied
SatisfiesAll(row, filters) ==
    /\ "district" \in DOMAIN filters => Contains(row.district, filters.district)
    /\ "healthStatus" \in DOMAIN filters => row.healthStatus = filters.healthStatus
    /\ "search" \in DOMAIN filters =>
         \/ Contains(Lower(row.name), Lower(filters.search))
         \/ Contains(Lower(row.patientId), Lower(filters.search))

\* C8: without limit and offset, getPatients returns the patients that satisfy
\* every supplied filter (district as a substring, healthStatus by equality,
\* search case-insensitively in name or patientId), each once, and no other.
C8_ExactlyTheMatches ==
    [][(PatientsListed /\ DOMAIN resp'.req \cap {"limit", "offset"} = {})
         => /\ Range(resp'.rows) = {r \in Range(patients) : SatisfiesAll(r, resp'.req)}
            /\ Cardinality(Range(resp'.rows)) = Len(resp'.rows)]_vars

\* whether a filter holds a number (and not NaN)
IsNumber(filters, k) == k \in DOMAIN filters /\ filters[k] # <<>>

\* C9: getPatients returns its rows latest registration first, and with limit
\* and offset supplied the rows at positions [offset, offset + limit) of the
\* filtered, ordered list.
C9_OrderedPage ==
    [][PatientsListed =>
         LET rows == resp'.rows
             filters == resp'.req
             all == getPatients(Restrict(filters, {"district", "healthStatus", "search"}))
         IN  /\ \A i, j \in 1..Len(rows) :
                  i < j => rows[i].registeredAt >= rows[j].registeredAt
             /\ (IsNumber(filters, "limit") /\ IsNumber(filters, "offset")) =>
                  \E full \in all.results :
                     /\ Len(rows) <= filters.limit[1]
                     /\ \A i \in 1..Len(rows) : rows[i] = full[filters.offset[1] + i]
                     /\ Len(rows) < filters.limit[1] =>
                          filters.offset[1] + Len(rows) >= Len(full)]_vars

\* whether table rows holds a row of this id
HasId(rows, id) == \E i \in 1..Len(rows) : rows[i].id = id

ReferencesHold ==
    /\ \A i \in 1..Len(healthRecords) : HasId(patients, healthRecords[i].patientId)
    /\ \A i \in 1..Len(diseaseCases) :
         /\ HasId(patients, diseaseCases[i].patientId)
         /\ HasId(diseases, diseaseCases[i].diseaseId)

\* the request answered in this step names a patient or a disease not stored
NamesMissingRow ==
    /\ resp' # resp
    /\ resp'.op \in {"POST /api/health-records", "POST /api/disease-cases"}
    /\ \/ "patientId" \in DOMAIN resp'.req /\ ~HasId(patients, resp'.req.patientId)
       \/ "diseaseId" \in DOMAIN resp'.req /\ ~HasId(diseases, resp'.req.diseaseId)

\* C10: every health record references a stored patient and every disease case
\* a stored patient and a stored disease; a POST /api/health-records or
\* /api/disease-cases that names one not stored creates no record.
C10_ReferencesHold ==
    /\ []ReferencesHold
    /\ [][NamesMissingRow => (resp'.status # 201 /\ tables' = tables)]_vars

\* a record and a case are stored, and a case naming no stored disease was
\* turned down
C10_Witness ==
    /\ healthRecords # <<>> /\ diseaseCases # <<>>
    /\ resp.op = "POST /api/disease-cases" /\ resp.status = 500
    /\ ~HasId(diseases, resp.req.diseaseId)

\* the response of this step is a 200 of GET /api/disease-cases/stats
StatsListed ==
    resp' # resp /\ resp'.op = "GET /api/disease-cases/stats" /\ resp'.status = 200

\* the number of stored cases of a disease
CasesOf(id) == Cardinality({i \in 1..Len(diseaseCases) : diseaseCases[i].diseaseId = id})

\* C11: getDiseaseStats returns one {name, count} entry for every stored
\* disease, exactly once, its count the number of cases that reference the
\* disease (0 when none does), the entries in non-increasing order of count.
C11_StatsOfEveryDisease ==
    [][StatsListed =>
         LET stats == resp'.rows
         IN  /\ Len(stats) = Len(diseases)
             /\ \A i \in 1..Len(diseases) :
                  /\ Cardinality({j \in 1..Len(stats) :
                                    stats[j].name = diseases[i].name}) = 1
                  /\ \A j \in 1..Len(stats) :
                       stats[j].name = diseases[i].name =>
                         stats[j].count = CasesOf(diseases[i].id)
             /\ \A i, j \in 1..Len(stats) :
                  i < j => stats[i].count >= stats[j].count]_vars

\* the statistics list Dengue with its one case ahead of a disease with none
C11_Witness ==
    /\ resp.op = "GET /api/disease-cases/stats" /\ resp.status = 200
    /\ Len(resp.rows) = 2
    /\ resp.rows[1] = [name |-> Dengue, count |-> 1]
    /\ resp.rows[2].count = 0
    /\ Len(diseaseCases) = 1

\* the route that fetches by id what a POST route created
GetRouteOf(op) ==
    CASE op = "POST /api/patients" -> "GET /api/patients/:id"
      [] op = "POST /api/health-records" -> "GET /api/health-records/:id"
      [] OTHER -> "none"

\* this step fetches by its id the record the last response returned as created
FetchedBack ==
    /\ resp.status = 201
    /\ GetRouteOf(resp.op) # "none"
    /\ resp'.op = GetRouteOf(resp.op)
    /\ resp'.id = resp.rows[1].id

\* C12: a record returned by POST /api/patients or POST /api/health-records
\* and fetched by its id right afterwards comes back with status 200 and is
\* field for field the record returned, the server-set timestamp and the
\* generated patientId included.
C12_RoundTrip ==
    [][FetchedBack => (resp'.status = 200 /\ resp'.rows = resp.rows)]_vars

\* a health record was fetched back with the id and the stamp it was stored
\* with, and so was, before it, a patient with its patientId
C12_Witness ==
    /\ resp.op = "GET /api/health-records/:id" /\ resp.status = 200
    /\ resp.rows = healthRecords
    /\ {"id", "patientId", "checkupDate", "createdAt"} \subseteq DOMAIN resp.rows[1]
    /\ patients # <<>> /\ patients[1].patientId = GeneratePatientId(0)

\* the table a lookup route reads
TableOf(op) ==
    CASE op = "GET /api/patients/:id" -> patients
      [] op = "GET /api/health-records/:id" -> healthRecords
      [] OTHER -> <<>>

\* this step answers a lookup by an id that is not stored
MissingLookedUp ==
    /\ resp' # resp
    /\ resp'.op \in {"GET /api/patients/:id", "GET /api/health-records/:id"}
    /\ ~HasId(TableOf(resp'.op), resp'.id)

\* C13: GET /api/patients/:id and GET /api/health-records/:id of an id that is
\* not stored answer 404 with a message, never 500, and return no row.
C13_MissingIs404 ==
    [][MissingLookedUp =>
         (resp'.status = 404 /\ resp'.message # "" /\ resp'.rows = <<>>)]_vars

\* a patient is stored, and the lookup of another id was answered 404
C13_Witness ==
    /\ resp.op = "GET /api/patients/:id" /\ resp.status = 404
    /\ resp.message = "Patient not found"
    /\ patients # <<>> /\ ~HasId(patients, resp.id)

\* the response of this step is that of GET /api/dashboard/stats
DashboardRead == resp' # resp /\ resp'.op = "GET /api/dashboard/stats"

\* the number of rows of a table that satisfy a test
NumberOf(rows, Test(_)) == Len(SelectSeq(rows, Test))

\* C18: with no write under way, getDashboardStats returns totalPatients = the
\* number of patients, activeAlerts = the number of alerts with isActive true,
\* totalScreenings = the number of health records and totalDiseaseCases = the
\* number of disease cases of the store as it stands.
C18_DashboardCounts ==
    [][DashboardRead =>
         /\ resp'.status = 200
         /\ resp'.rows[1].totalPatients = seeded + Len(patients)
         /\ resp'.rows[1].activeAlerts = NumberOf(healthAlerts, LAMBDA r : r.isActive)
         /\ resp'.rows[1].totalScreenings = Len(healthRecords)
         /\ resp'.rows[1].totalDiseaseCases = Len(diseaseCases)]_vars

\* the dashboard counted a patient, a health record and a disease case, and
\* no active alert beside an alert that was switched off
C18_Witness ==
    /\ resp.op = "GET /api/dashboard/stats"
    /\ resp.rows[1] = [totalPatients |-> 1, activeAlerts |-> 0,
                       totalScreenings |-> 1, totalDiseaseCases |-> 1]
    /\ healthAlerts # <<>>

\* the table a create route inserts into, and its timestamp column ("" when
\* the table has none)
CreatedIn(op) ==
    CASE op = "POST /api/patients" -> [rows |-> patients, stamp |-> "registeredAt"]
      [] op = "POST /api/health-records" -> [rows |-> healthRecords, stamp |-> "createdAt"]
      [] op = "POST /api/diseases" -> [rows |-> diseases, stamp |-> ""]
      [] op = "POST /api/disease-cases" -> [rows |-> diseaseCases, stamp |-> "reportedAt"]
      [] op = "POST /api/health-alerts" -> [rows |-> healthAlerts, stamp |-> "createdAt"]

\* the response of this step is a 201 of a create route
Created == resp' # resp /\ resp'.op \in PostOps /\ resp'.status = 201

\* C14: the record a POST creates carries the id the server generates, a
\* creation timestamp of the server clock and, a patient, the patientId the
\* server computes; an id, patientId or timestamp in the POST body is not
\* stored, and no createPatient argument carries one.
C14_ServerAssignsKeys ==
    /\ [](\A c \in Clients :
            DOMAIN insertPatient[c] \cap {"id", "patientId", "registeredAt"} = {})
    /\ [][Created =>
           LET into == CreatedIn(resp'.op)
               row == resp'.rows[1]
           IN  /\ row.id = Len(into.rows) + 1
               /\ \A old \in Range(into.rows) : old.id # row.id
               /\ into.stamp # "" => row[into.stamp] \in Now(into.rows, into.stamp)
               /\ resp'.op = PostPatientsOp =>
                    row.patientId = GeneratePatientId(resp'.count)
               /\ \A k \in DOMAIN resp'.req \cap {"id", into.stamp} :
                    k \in DOMAIN row => row[k] # resp'.req[k]]_vars

\* a health record was created from a body that carried an id, under another
\* id, and a patient from a body that carried one, under the id generated
C14_Witness ==
    /\ resp.op = "POST /api/health-records" /\ resp.status = 201
    /\ "id" \in DOMAIN resp.req /\ resp.rows[1].id # resp.req.id
    /\ healthRecords = resp.rows
    /\ Len(patients) = 1 /\ patients[1].id = 1

\* the ids stored in a table
IdsOf(rows) == {rows[i].id : i \in 1..Len(rows)}

\* C15: no operation deletes a record: the set of stored ids of each entity
\* only grows, and so the counts of patients, health records and disease
\* cases never go down.
C15_IdsOnlyGrow ==
    [][/\ IdsOf(patients) \subseteq IdsOf(patients')
       /\ IdsOf(healthRecords) \subseteq IdsOf(healthRecords')
       /\ IdsOf(diseases) \subseteq IdsOf(diseases')
       /\ IdsOf(diseaseCases) \subseteq IdsOf(diseaseCases')
       /\ IdsOf(healthAlerts) \subseteq IdsOf(healthAlerts')
       /\ Len(patients) <= Len(patients')
       /\ Len(healthRecords) <= Len(healthRecords')
       /\ Len(diseaseCases) <= Len(diseaseCases')]_vars

\* every stored status and severity is a value of its enum
EnumsHold ==
    /\ \A i \in 1..Len(patients) :
         patients[i].healthStatus
           \in {"healthy", "under_treatment", "critical", "recovered"}
    /\ \A i \in 1..Len(healthAlerts) :
         healthAlerts[i].severity \in {"low", "medium", "high", "critical"}

\* the update answered in this step carries a status or a severity that is no
\* value of the enum
UpdatedOutsideEnum ==
    /\ resp' # resp
    /\ \/ /\ resp'.op = "PUT /api/patients/:id"
          /\ "healthStatus" \in DOMAIN resp'.req
          /\ resp'.req.healthStatus
               \notin {"healthy", "under_treatment", "critical", "recovered"}
       \/ /\ resp'.op = "PUT /api/health-alerts/:id"
          /\ "severity" \in DOMAIN resp'.req
          /\ resp'.req.severity \notin {"low", "medium", "high", "critical"}

\* C16: every patient's healthStatus is one of healthy, under_treatment,
\* critical, recovered and every alert's severity one of low, medium, high,
\* critical; a PUT that carries a value outside the enum is turned down by
\* the store and leaves every row as it was.
C16_EnumsHold ==
    /\ []EnumsHold
    /\ [][UpdatedOutsideEnum => (resp'.status = 500 /\ tables' = tables)]_vars

\* a stored patient was sent a status outside the enum and kept its own
C16_Witness ==
    /\ resp.op = "PUT /api/patients/:id" /\ resp.status = 500
    /\ resp.req = [healthStatus |-> "bogus"]
    /\ HasId(patients, resp.id)
    /\ healthAlerts # <<>>

\* the response of this step is a 200 of GET /api/health-alerts
AlertsListed ==
    resp' # resp /\ resp'.op = "GET /api/health-alerts" /\ resp'.status = 200

\* the query asks for the active alerts: activeOnly is the text true
AsksActiveOnly(query) ==
    /\ "activeOnly" \in DOMAIN query
    /\ Len(query.activeOnly) = 4
    /\ query.activeOnly[1] = "t" /\ query.activeOnly[2] = "r"
    /\ query.activeOnly[3] = "u" /\ query.activeOnly[4] = "e"

\* C17: GET /api/health-alerts with activeOnly the text "true" returns the
\* alerts whose isActive is true and no other, with activeOnly absent or any
\* other value every alert, each once and latest created first.
C17_ActiveOnly ==
    [][AlertsListed =>
         LET alerts == resp'.rows
         IN  /\ Range(alerts) = IF AsksActiveOnly(resp'.req)
                                THEN {healthAlerts[i] : i \in
                                        {j \in 1..Len(healthAlerts) :
                                           healthAlerts[j].isActive}}
                                ELSE Range(healthAlerts)
             /\ Cardinality(Range(alerts)) = Len(alerts)
             /\ \A i, j \in 1..Len(alerts) :
                  i < j => alerts[i].createdAt >= alerts[j].createdAt]_vars

\* of two alerts, one created with isActive false, activeOnly=true listed the
\* active one alone
C17_Witness ==
    /\ resp.op = "GET /api/health-alerts" /\ resp.status = 200
    /\ AsksActiveOnly(resp.req)
    /\ Len(healthAlerts) = 2
    /\ Len(resp.rows) = 1 /\ resp.rows[1].isActive
    /\ \E i \in 1..2 : healthAlerts[i].title = <<"U">> /\ ~healthAlerts[i].isActive

\* the response of this step is a 200 of GET /api/disease-cases
CasesListed ==
    resp' # resp /\ resp'.op = "GET /api/disease-cases" /\ resp'.status = 200

DiseaseCaseColumns == {"id", "patientId", "diseaseId", "status", "reportedAt"}

\* whether a case satisfies every filter supplied
CaseSatisfiesAll(case, filters) ==
    /\ "patientId" \in DOMAIN filters => case.patientId = filters.patientId
    /\ "diseaseId" \in DOMAIN filters => case.diseaseId = filters.diseaseId
    /\ "status" \in DOMAIN filters => case.status = filters.status
    /\ "district" \in DOMAIN filters =>
         \E i \in 1..Len(patients) :
            /\ patients[i].id = case.patientId
            /\ Contains(patients[i].district, filters.district)

\* C20: getDiseaseCases returns the cases that satisfy every supplied filter
\* (patientId, diseaseId and status by equality, district as a substring of
\* the district of the case's patient), each once and no other, each with the
\* name and district of its patient and the name of its disease, latest
\* reported first.
C20_ExactlyTheCases ==
    [][CasesListed =>
         LET cases == resp'.rows
         IN  /\ {Restrict(cases[i], DiseaseCaseColumns) : i \in 1..Len(cases)}
                  = {diseaseCases[i] : i \in
                       {j \in 1..Len(diseaseCases) :
                          CaseSatisfiesAll(diseaseCases[j], resp'.req)}}
             /\ Cardinality(Range(cases)) = Len(cases)
             /\ \A i \in 1..Len(cases) :
                  /\ \E j \in 1..Len(patients) :
                       /\ patients[j].id = cases[i].patientId
                       /\ cases[i].patientName = <<patients[j].name>>
                       /\ cases[i].patientDistrict = <<patients[j].district>>
                  /\ \E j \in 1..Len(diseases) :
                       /\ diseases[j].id = cases[i].diseaseId
                       /\ cases[i].diseaseName = <<diseases[j].name>>
             /\ \A i, j \in 1..Len(cases) :
                  i < j => cases[i].reportedAt >= cases[j].reportedAt]_vars

\* the table a PUT route updates, before and after this step
Updated(op) ==
    CASE op = "PUT /api/patients/:id" -> [before |-> patients, after |-> patients']
      [] op = "PUT /api/health-alerts/:id" ->
           [before |-> healthAlerts, after |-> healthAlerts']

\* the response of this step is that of an update that found its row
RowUpdated ==
    /\ resp' # resp /\ resp'.op \in PutOps /\ resp'.status = 200
    /\ HasId(Updated(resp'.op).before, resp'.id)

\* C21: updatePatient and updateHealthAlert on an existing id change on the
\* row of that id the fields the update supplies and no other, leave every
\* other row as it was, and return the row as it is stored after the update.
C21_UpdatesSuppliedFields ==
    [][RowUpdated =>
         LET before == Updated(resp'.op).before
             after == Updated(resp'.op).after
             updates == resp'.req
         IN  /\ Len(after) = Len(before)
             /\ \A i \in 1..Len(before) :
                  IF before[i].id = resp'.id
                  THEN /\ DOMAIN after[i] = DOMAIN before[i]
                       /\ \A k \in DOMAIN before[i] :
                            after[i][k] = IF k \in DOMAIN updates
                                          THEN updates[k] ELSE before[i][k]
                       /\ resp'.rows = <<after[i]>>
                  ELSE after[i] = before[i]]_vars

\* of two alerts the first was switched off and returned so, the second left
\* active, and a patient was renamed beside another
C21_Witness ==
    /\ resp.op = "PUT /api/health-alerts/:id" /\ resp.status = 200
    /\ Len(healthAlerts) = 2
    /\ resp.rows = <<healthAlerts[1]>>
    /\ ~healthAlerts[1].isActive /\ healthAlerts[2].isActive
    /\ Len(patients) = 2
    /\ patients[1].name = <<"B">> /\ patients[2].name = <<"A">>

\* client c's insert is carried out in this step
Inserts(c) == pc[c] = "insert" /\ pc'[c] = "idle"

\* C25: a POST /api/patients whose computed patientId a stored patient holds
\* by the time of its insert (a concurrent create with the same id got there
\* first) inserts no row and ends with 500 "Failed to create patient"; the
\* request is over, it is not tried again.
C25_LoserIsTurnedDown ==
    [][\A c \in Clients :
         (Inserts(c) /\ patientId[c] \in StoredPatientIds) =>
            /\ patients' = patients
            /\ resp'.op = PostPatientsOp /\ resp'.status = 500
            /\ resp'.message = "Failed to create patient"
            /\ insertPatient'[c] = EmptyObject /\ patientId'[c] = <<>>]_vars

\* of two creates that read the same count one stored its patient and the
\* other was answered 500, with no request left in flight
C25_Witness ==
    /\ resp.op = PostPatientsOp /\ resp.status = 500
    /\ \A c \in Clients : pc[c] = "idle"
    /\ Len(patients) = 1
    /\ resp.count = seeded
    /\ patients[1].patientId = GeneratePatientId(resp.count)

\* C26: with no update of a patientId, the stored patientIds are gapless
\* under every interleaving of creates: with n patients registered they are
\* the ids numbered 1 to n, a create that failed having used up no number.
C26_Gapless ==
    /\ StoredPatientIds =
         {GeneratePatientId(n - 1) : n \in (seeded + 1)..(seeded + Len(patients))}
    /\ Cardinality(StoredPatientIds) = Len(patients)

\* after 41 registrations a patient holds MW000042, the create that lost the
\* race for that id was answered 500, and the next create holds MW000043: the
\* failure used up no number
C26_Witness ==
    /\ seeded = 41
    /\ StoredPatientIds = {<<"M", "W", "0", "0", "0", "0", "4", "2">>}
    /\ resp.op = PostPatientsOp /\ resp.status = 500
    /\ \E c \in Clients :
         /\ pc[c] = "insert"
         /\ patientId[c] = <<"M", "W", "0", "0", "0", "0", "4", "3">>

\* client c's insert is carried out in this step, with no other creation in
\* flight and none completed since c read the count
InsertsAlone(c) ==
    /\ Inserts(c)
    /\ \A d \in Clients \ {c} : pc[d] = "idle"
    /\ patientCount[c] = seeded + Len(patients)

\* C27: a POST /api/patients with a valid payload, with no other patient
\* creation in flight, is answered 201 in every state the API can reach;
\* no earlier requests can make the creations fail.
C27_CreateAloneSucceeds ==
    [][\A c \in Clients :
         InsertsAlone(c) => (resp'.op = PostPatientsOp /\ resp'.status = 201)]_vars

\* the query keys the claim has a create invalidate
KeysOfCreate(op) ==
    CASE op = "POST /api/health-records" ->
           {"/api/health-records", "/api/dashboard/stats"}
      [] op = "POST /api/disease-cases" ->
           {"/api/disease-cases", "/api/dashboard/stats"}
      [] op = "POST /api/health-alerts" -> {"/api/health-alerts"}

\* the response of this step answers a create of the client
ClientCreated ==
    /\ resp' # resp
    /\ resp'.op \in {"POST /api/health-records", "POST /api/disease-cases",
                      "POST /api/health-alerts"}

UniqueIn(rows, col) ==
    \A i, j \in 1..Len(rows) : rows[i][col] = rows[j][col] => i = j

\* the step answers a POST /api/diseases whose body is a valid disease under
\* a name some disease has
DuplicateDiseasePosted ==
    /\ resp' # resp
    /\ resp'.op = "POST /api/diseases"
    /\ {"name", "type"} \subseteq DOMAIN resp'.req
    /\ resp'.req.type \in diseaseTypeEnum
    /\ \E r \in Range(diseases) : r.name = resp'.req.name

\* the step is a createUser under a username some user has
DuplicateUserCreated ==
    /\ resp' # resp
    /\ resp'.op = "createUser"
    /\ \E r \in Range(users) : r.username = resp'.req.username

\* C22: no two diseases share a name and no two users a username; a create
\* under a name that is taken inserts nothing and fails in the storage layer,
\* which POST /api/diseases answers with the 500 of its catch and not with
\* the 400 of a body the schema turned down.
C22_NamesStayUnique ==
    [][/\ UniqueIn(diseases', "name")
       /\ UniqueIn(users', "username")
       /\ DuplicateDiseasePosted =>
            /\ resp'.status = 500
            /\ resp'.message = "Failed to create disease"
            /\ resp'.called
            /\ diseases' = diseases
       /\ DuplicateUserCreated =>
            /\ resp'.rows = <<>>
            /\ users' = users]_vars

\* a second disease named D, of another type, was answered 500 while a user
\* is stored
C22_Witness ==
    /\ resp.op = "POST /api/diseases" /\ resp.status = 500
    /\ resp.req.name = <<"D">> /\ resp.req.type = "chronic"
    /\ \E r \in Range(diseases) : r.name = <<"D">> /\ r.type = "infectious"
    /\ Len(users) = 1 /\ users[1].password = <<"p">>
    /\ users[1].username = <<"a">>

\* the filter of the request is the empty string
EmptyFilter(filters, k) ==
    CASE k \in {"district", "search"} -> filters[k] = <<>>
      [] k \in {"healthStatus", "status"} -> filters[k] = ""
      [] k \in {"patientId", "diseaseId"} -> filters[k] = EmptyId
      [] OTHER -> FALSE

\* the request with its empty filters left out
Omitting(filters) ==
    Restrict(filters, {k \in DOMAIN filters : ~EmptyFilter(filters, k)})

\* the step lists patients, health records or disease cases
Listed ==
    /\ resp' # resp
    /\ resp'.op \in {"GET /api/patients", "GET /api/health-records",
                      "GET /api/disease-cases"}

\* the answers the route may give to the request
AnswersTo(op, filters) ==
    CASE op = "GET /api/patients" ->
           IF getPatients(filters).ok
           THEN {<<200, rows>> : rows \in getPatients(filters).results}
           ELSE {<<500, <<>> >>}
      [] op = "GET /api/health-records" ->
           {<<200, rows>> : rows \in getHealthRecords(filters)}
      [] op = "GET /api/disease-cases" ->
           {<<200, rows>> : rows \in getDiseaseCases(filters)}

\* C23: a list request whose district, healthStatus, search, patientId,
\* diseaseId or status filter is the empty string is answered as the same
\* request with that filter left out: the empty filter restricts nothing and
\* fails nothing.
C23_EmptyFilterIsNoFilter ==
    [][Listed =>
         <<resp'.status, resp'.rows>> \in AnswersTo(resp'.op, Omitting(resp'.req))
      ]_vars

\* the disease cases were asked for with all four filters empty and the
\* stored case was listed
C23_Witness ==
    /\ resp.op = "GET /api/disease-cases"
    /\ resp.req = [patientId |-> EmptyId, diseaseId |-> EmptyId,
                   district |-> <<>>, status |-> ""]
    /\ Len(diseaseCases) >= 1
    /\ Len(resp.rows) = Len(diseaseCases)

\* the step answers a GET /api/dashboard/stats that ran query by query
DashboardAnswered == dashboard.at = "cases" /\ dashboard'.at = "idle"

\* C28: the four counts of the dashboard come from four queries that run one
\* after the other with no transaction around them, the patients first and
\* the disease cases last: each count is the one its table had when its
\* query ran.  No state of the store has a disease case and no patient, yet
\* with creations between the queries the response can show one.
C28_FourSeparateQueries ==
    [][/\ diseaseCases' # <<>> => patients' # <<>>
       /\ dashboard.at = "idle" /\ dashboard'.at # "idle" =>
            /\ dashboard'.at = "alerts"
            /\ dashboard'.patientsCount = seeded + Len(patients)
       /\ dashboard.at = "alerts" /\ dashboard'.at # "alerts" =>
            /\ dashboard'.at = "records"
            /\ dashboard'.alertsCount =
                 Cardinality({i \in 1..Len(healthAlerts) : healthAlerts[i].isActive})
       /\ dashboard.at = "records" /\ dashboard'.at # "records" =>
            /\ dashboard'.at = "cases"
            /\ dashboard'.recordsCount = Len(healthRecords)
       /\ DashboardAnswered =>
            /\ resp'.op = "GET /api/dashboard/stats" /\ resp'.status = 200
            /\ resp'.rows[1].totalPatients = dashboard.patientsCount
            /\ resp'.rows[1].activeAlerts = dashboard.alertsCount
            /\ resp'.rows[1].totalScreenings = dashboard.recordsCount
            /\ resp'.rows[1].totalDiseaseCases = Len(diseaseCases)]_vars

\* the dashboard reports no patient and one disease case
C28_Witness ==
    /\ resp.op = "GET /api/dashboard/stats"
    /\ resp.rows[1].totalPatients = 0
    /\ resp.rows[1].totalDiseaseCases >= 1

\* the request names no number of rows, or names zero or what is no number
ZeroOrNaN(filters, k) ==
    \/ k \notin DOMAIN filters
    \/ filters[k] = <<>>
    \/ filters[k] = <<0>>

\* every matching patient, latest first, in each order the store may give
AllMatching(filters) ==
    OrderByDesc({r \in Range(patients) : PatientMatches(r, filters)}, "registeredAt")

\* the step answers a GET /api/patients with a page
PageListed ==
    /\ resp' # resp
    /\ resp'.op = "GET /api/patients"
    /\ resp'.status = 200

\* C29: a limit of 0 and a limit that is no number limit nothing, and an
\* offset of 0 and an offset that is no number skip nothing: with both the
\* page is every matching patient, with such a limit it is every matching
\* patient after the offset, with such an offset it starts at the first.
C29_ZeroLimitIsNoLimit ==
    [][PageListed =>
         \E all \in AllMatching(resp'.req) :
            LET filters == resp'.req
                rows == resp'.rows
            IN  /\ ZeroOrNaN(filters, "limit") /\ ZeroOrNaN(filters, "offset") =>
                     rows = all
                /\ ZeroOrNaN(filters, "limit") /\ ~ZeroOrNaN(filters, "offset") =>
                     rows = SubSeq(all, filters.offset[1] + 1, Len(all))
                /\ ZeroOrNaN(filters, "offset") /\ ~ZeroOrNaN(filters, "limit") =>
                     /\ Len(rows) <= Len(all)
                     /\ rows = SubSeq(all, 1, Len(rows))
                     /\ Len(rows) = filters.limit[1] \/ rows = all
      ]_vars

\* limit=0 with an offset that is no number listed both patients
C29_Witness ==
    /\ resp.op = "GET /api/patients" /\ resp.status = 200
    /\ DOMAIN resp.req = {"limit", "offset"}
    /\ resp.req.limit = <<0>> /\ resp.req.offset = <<>>
    /\ Len(patients) = MaxPatients
    /\ Len(resp.rows) = Len(patients)

====
